---- MODULE Spec2Model ----
(***************************************************************************)
(* A model of t5/data/utils.py: the scoped seed counter used by            *)
(* map_over_dataset (map_seed_manager, _NEXT_MAP_SEED) and the memoized    *)
(* TFDS builder registry of LazyTfdsLoader.                                *)
(*                                                                         *)
(* Python's None is the empty tuple <<>> and a present value v is <<v>>,   *)
(* so that "is None" and truthiness are computed, not assumed.             *)
(***************************************************************************)
EXTENDS Integers, Sequences, FiniteSets, TLC

None == <<>>
Some(v) == <<v>>

(* ------------------------------ bounds --------------------------------- *)
\* seed-scope operations (scope entries, scope exits, seeded stage
\* invocations) performed in one behaviour
MaxOps == 6

\* the num_seeds values stages are declared with
NumSeeds == {1, 2}

\* the initial_seed arguments tried for map_seed_manager
InitialSeeds == {None, Some(0), Some(5), Some(100)}

\* tfds.builder invocations (successful or failing) in one behaviour
MaxBuilds == 3

\* threads that read LazyTfdsLoader.builder concurrently
NumThreads == 2

\* the arguments loaders are constructed with (lines 76-88)
Names == {"ds", "ds/cfg"}
Dirs == {None, Some(""), Some("d1")}
SplitMaps == {None, Some(<<>>), Some([validation |-> "train[:1%]"])}
\* every (name, data_dir) without a split map, and every split map on one of them
Loaders ==
  [name : Names, data_dir : Dirs, split_map : {None}]
    \cup [name : {"ds"}, data_dir : {None}, split_map : SplitMaps]

\* the loaders whose builder is read by concurrent threads
ConcLoaders == [name : {"ds"}, data_dir : {None, Some("d1")}, split_map : {None}]

\* the arguments set_tfds_data_dir_override is called with
Overrides == {None, Some(""), Some("d2")}

\* the canonical split names asked for
Splits == {"train", "validation", "test"}

Threads == 1..NumThreads

\* stage invocations (mapped datasets built) in one behaviour
MaxStages == 2

\* the initial seeds, num_seeds values and input sizes of the mapped stages
StageSeeds == {None, Some(0), Some(5)}
StageNumSeeds == {0, 1, 2}
ElemCounts == {0, 1, 2}

\* the loaders whose files and size are asked for
FileLoaders ==
  [name : Names, data_dir : {None},
   split_map : {None, Some([validation |-> "train[:1%]"])}]

\* the values of builder.BUILDER_CONFIGS tried: none, one, two named configs
BuilderConfigs == {<<>>, <<"a">>, <<"a", "b">>}

\* builder.info.splits of the datasets read: per TFDS split its
\* file_instructions and num_examples; any other split is not in the dict
SplitInfos ==
  [train |-> [file_instructions |-> <<"f1", "f2">>, num_examples |-> 3],
   validation |-> [file_instructions |-> <<"f3">>, num_examples |-> -1]]
    @@ ("train[:1%]" :> [file_instructions |-> <<>>, num_examples |-> 0])

\* seeded stage invocations made on unbounded integers in one behaviour
MaxWideCalls == 4

\* seed-scope operations interleaved with registry operations in one behaviour
MaxSeqOps == 2

\* the initial seeds and num_seeds used by the program that interleaves them
SeqSeeds == {None, Some(5)}
SeqNumSeeds == {1}

(* ------------------------------ state ---------------------------------- *)
VARIABLES
  NEXT_MAP_SEED,   \* the module global _NEXT_MAP_SEED: None or Some(int)
  frames,          \* suspended map_seed_manager generators, innermost last
  scopes,          \* history: one record per activation, indexed by scope id
  calls,           \* history: one record per seeded stage invocation
  lastExit         \* history: what the most recent scope exit did

seedVars == <<NEXT_MAP_SEED, frames, scopes, calls, lastExit>>

VARIABLES
  TFDS_DATA_DIR_OVERRIDE,   \* the module global _TFDS_DATA_DIR_OVERRIDE
  MEMOIZED_BUILDERS,        \* LazyTfdsLoader._MEMOIZED_BUILDERS: key -> builder
  tfdsCalls,                \* history: every tfds.builder invocation, in order
  ret,                      \* history: the last sequential call and its outcome
  threads                   \* per thread: its position inside the builder property

cacheVars == <<TFDS_DATA_DIR_OVERRIDE, MEMOIZED_BUILDERS, tfdsCalls, ret, threads>>

VARIABLES
  stages,   \* history: the datasets returned by the stages invoked, in order
  evals     \* history: the calls of mapped functions made on elements so far

stageVars == <<stages, evals>>

VARIABLES
  wideSeed,     \* _NEXT_MAP_SEED held as an unbounded integer: None or Some(wide)
  wideFrames,   \* suspended map_seed_manager generators over wide values
  wideCalls     \* history: the seeds dispensed from wide bases, per invocation

wideVars == <<wideSeed, wideFrames, wideCalls>>

VARIABLES
  mutex,    \* a lock of the calling program: 0, or the thread holding it
  derive    \* per thread: its position inside wrapped_fn and its locals

deriveVars == <<mutex, derive>>

extVars == <<stageVars, wideVars, deriveVars>>

vars == <<seedVars, cacheVars, extVars>>

\* id of the scope that is the active one (0: no scope entered)
ActiveScope == IF frames = <<>> THEN 0 ELSE frames[Len(frames)].id

\* seed-scope operations performed so far: entries + exits + invocations
OpsDone ==
  Len(scopes) + Cardinality({i \in DOMAIN scopes : scopes[i].status # "active"})
    + Len(calls)

(* --------------------------- seed arithmetic --------------------------- *)
\* np.arange(lo, hi): the integers lo .. hi-1, in order
arange(lo, hi) == [i \in 1..(hi - lo) |-> lo + (i - 1)]

\* .reshape(-1, 2) followed by tuple(tuple(s) for s in ...): rows of two
reshape2(a) == [i \in 1..(Len(a) \div 2) |-> <<Some(a[2 * i - 1]), Some(a[2 * i])>>]

\* a mutant of random_ds_seeds: "if not _NEXT_MAP_SEED", which takes 0 for unset
random_ds_seeds_truthiness(next, num_seeds) ==
  IF next = None \/ next = Some(0)
    THEN [i \in 1..num_seeds |-> <<None, None>>]
    ELSE reshape2(arange(next[1], next[1] + 2 * num_seeds))

\* lines 317-322: the seeds one invocation of wrapped_fn derives
random_ds_seeds(next, num_seeds) ==
  IF next = None
    THEN [i \in 1..num_seeds |-> <<None, None>>]
    ELSE reshape2(arange(next[1], next[1] + 2 * num_seeds))

\* a mutant of advance: "_NEXT_MAP_SEED += num_seeds", one integer per seed
advance_by_count(next, num_seeds) ==
  IF next = None THEN next ELSE Some(next[1] + num_seeds)

\* line 323 (only on the else branch): _NEXT_MAP_SEED += 2 * num_seeds
advance(next, num_seeds) ==
  IF next = None THEN next ELSE Some(next[1] + 2 * num_seeds)

\* line 274: what map_seed_manager saves on entry
saved_on_entry(next, initial_seed) == next

\* a mutant of restored_on_exit: the exit clears the base instead of restoring it
restored_on_exit_cleared(frame) == None

\* line 277: what the generator assigns when it is resumed after the yield
restored_on_exit(frame) == frame.old_map_seed

(* ------------------------------ actions -------------------------------- *)
\* with map_seed_manager(initial_seed): lines 273-276, up to the yield
EnterScope(initial_seed) ==
  /\ OpsDone < MaxOps
  /\ LET id == Len(scopes) + 1 IN
       /\ frames' = Append(frames,
            [id |-> id, old_map_seed |-> saved_on_entry(NEXT_MAP_SEED, initial_seed)])
       /\ scopes' = [i \in 1..id |->
            IF i = id
              THEN [initial_seed |-> initial_seed, parent |-> ActiveScope,
                    entry_base |-> NEXT_MAP_SEED, status |-> "active",
                    nested |-> FALSE]
              ELSE IF i = ActiveScope THEN [scopes[i] EXCEPT !.nested = TRUE]
              ELSE scopes[i]]
  /\ NEXT_MAP_SEED' = initial_seed
  /\ UNCHANGED <<calls, lastExit, cacheVars, extVars>>

\* the with-body ends normally: the generator is resumed and runs line 277
ExitScope ==
  /\ OpsDone < MaxOps
  /\ frames # <<>>
  /\ LET top == frames[Len(frames)] IN
       /\ NEXT_MAP_SEED' = restored_on_exit(top)
       /\ frames' = SubSeq(frames, 1, Len(frames) - 1)
       /\ scopes' = [scopes EXCEPT ![top.id].status = "exited"]
       /\ lastExit' = [how |-> "normal", scope |-> top.id,
                       before_entry |-> scopes[top.id].entry_base,
                       after |-> NEXT_MAP_SEED']
  /\ UNCHANGED <<calls, cacheVars, extVars>>

\* the with-body raises: contextlib throws the exception into the generator
\* at the yield of line 276; there is no try/finally around it, so line 277
\* is not executed and the exception leaves the generator
ExitScopeRaise ==
  /\ OpsDone < MaxOps
  /\ frames # <<>>
  /\ LET top == frames[Len(frames)] IN
       /\ NEXT_MAP_SEED' = NEXT_MAP_SEED
       /\ frames' = SubSeq(frames, 1, Len(frames) - 1)
       /\ scopes' = [scopes EXCEPT ![top.id].status = "failed"]
       /\ lastExit' = [how |-> "raise", scope |-> top.id,
                       before_entry |-> scopes[top.id].entry_base,
                       after |-> NEXT_MAP_SEED']
  /\ UNCHANGED <<calls, cacheVars, extVars>>

\* one invocation of a stage built by map_over_dataset(num_seeds=n): lines 316-323
WrappedFn(num_seeds) ==
  /\ OpsDone < MaxOps
  /\ calls' = Append(calls,
       [scope |-> ActiveScope, base |-> NEXT_MAP_SEED, num_seeds |-> num_seeds,
        seeds |-> random_ds_seeds(NEXT_MAP_SEED, num_seeds),
        after |-> advance(NEXT_MAP_SEED, num_seeds)])
  /\ NEXT_MAP_SEED' = advance(NEXT_MAP_SEED, num_seeds)
  /\ UNCHANGED <<frames, scopes, lastExit, cacheVars, extVars>>

(* ----------------- map_over_dataset: the mapped datasets ---------------- *)
\* element i of tf.data.experimental.RandomDataset(seed): a pseudo-random
\* number fixed by the seed and the position (with seed None the generator is
\* seeded non-deterministically)
RandomDataset(seed, i) == <<"RandomDataset", seed, i>>

\* line 324-326 and the zip of line 331: tf.nest.map_structure builds one
\* RandomDataset per integer of random_ds_seeds, and element i of the zipped
\* dataset carries element i of each of them, in the structure of the seeds
seed_element(seeds, i) ==
  [j \in 1..Len(seeds) |->
     <<RandomDataset(seeds[j][1], i), RandomDataset(seeds[j][2], i)>>]

\* a mutant of map_fn_kwargs: every stage passes the whole structure as seeds
map_fn_kwargs_seeds_only(num_seeds, s) == [kw |-> "seeds", value |-> s]

\* lines 327-330: the seed keyword map_fn passes to fn
map_fn_kwargs(num_seeds, s) ==
  IF num_seeds = 1 THEN [kw |-> "seed", value |-> s[1]]
  ELSE [kw |-> "seeds", value |-> s]

\* the keywords of one call of fn on element i of the dataset of stage st:
\* line 308 for map_without_seeds, lines 327-332 for map_with_seeds
call_kwargs(st, i) ==
  IF st.decorator = "map_without_seeds"
    THEN [kw |-> "none", value |-> <<>>]
    ELSE map_fn_kwargs(st.num_seeds, seed_element(st.seeds, i))

\* a stage made by map_over_dataset(num_seeds=n) is invoked on a dataset of
\* size elements: lines 315-332; the map itself is lazy
MapWithSeeds(num_seeds, size) ==
  /\ Len(stages) < MaxStages
  /\ stages' = Append(stages,
       [decorator |-> "map_with_seeds", num_seeds |-> num_seeds, size |-> size,
        scope |-> ActiveScope, base |-> NEXT_MAP_SEED,
        seeds |-> random_ds_seeds(NEXT_MAP_SEED, num_seeds),
        after |-> advance(NEXT_MAP_SEED, num_seeds)])
  /\ NEXT_MAP_SEED' = advance(NEXT_MAP_SEED, num_seeds)
  /\ UNCHANGED <<frames, scopes, calls, lastExit, evals, cacheVars, wideVars, deriveVars>>

\* a stage made by map_over_dataset(fn) is invoked: lines 306-309
MapWithoutSeeds(size) ==
  /\ Len(stages) < MaxStages
  /\ stages' = Append(stages,
       [decorator |-> "map_without_seeds", num_seeds |-> 0, size |-> size,
        scope |-> ActiveScope, base |-> NEXT_MAP_SEED, seeds |-> <<>>,
        after |-> NEXT_MAP_SEED])
  /\ UNCHANGED <<seedVars, evals, cacheVars, wideVars, deriveVars>>

\* a mutant of Eval: the seeds are derived again for every element
EvalDerivingSeeds(j, i) ==
  /\ j \in DOMAIN stages
  /\ i \in 1..stages[j].size
  /\ evals' = evals \cup {[stage |-> j, index |-> i, kwargs |-> call_kwargs(stages[j], i)]}
  /\ NEXT_MAP_SEED' = advance(NEXT_MAP_SEED, stages[j].num_seeds)
  /\ UNCHANGED <<frames, scopes, calls, lastExit, stages, cacheVars, wideVars, deriveVars>>

\* the executor evaluates the mapped function on element i of the dataset of
\* stage j (any order, any number of times): the lambdas of lines 308, 328, 330
Eval(j, i) ==
  /\ j \in DOMAIN stages
  /\ i \in 1..stages[j].size
  /\ evals' = evals \cup {[stage |-> j, index |-> i, kwargs |-> call_kwargs(stages[j], i)]}
  /\ UNCHANGED <<seedVars, stages, cacheVars, wideVars, deriveVars>>

(* ------------- the seed counter on unbounded integers ----------------- *)
\* Python's int is unbounded and np.arange of Python ints is an int64 array,
\* so nothing in lines 317-323 wraps at 32 bits.  An integer v is held here
\* as two limbs, v = hi * 2^16 + lo with 0 <= lo < 2^16, which keeps every
\* intermediate value small; the signed 32-bit range is hi in -2^15 .. 2^15-1.
wide(hi, lo) == [hi |-> hi, lo |-> lo]

\* w + k for a small k >= 0
wide_add(w, k) == wide(w.hi + ((w.lo + k) \div 2^16), (w.lo + k) % 2^16)

\* b - a, for values that are close to each other
wide_diff(b, a) == (b.hi - a.hi) * 2^16 + (b.lo - a.lo)

\* the range of a signed 32-bit integer
is_int32(w) == w.hi >= -(2^15) /\ w.hi <= 2^15 - 1

\* the initial seeds tried: unset, 0, -1, the smallest int32, and the two
\* int32 values from which the first seed reaches 2^31 - 1 and 2^31
WideSeeds ==
  {None, Some(wide(0, 0)), Some(wide(-1, 2^16 - 1)), Some(wide(-(2^15), 0)),
   Some(wide(2^15 - 1, 2^16 - 2)), Some(wide(2^15 - 1, 2^16 - 1))}

\* np.arange(lo, hi) on wide values
wide_arange(lo, hi) == [i \in 1..wide_diff(hi, lo) |-> wide_add(lo, i - 1)]

\* lines 317-322 on wide values
wide_random_ds_seeds(next, num_seeds) ==
  IF next = None
    THEN [i \in 1..num_seeds |-> <<None, None>>]
    ELSE reshape2(wide_arange(next[1], wide_add(next[1], 2 * num_seeds)))

\* line 323 on wide values
wide_advance(next, num_seeds) ==
  IF next = None THEN next ELSE Some(wide_add(next[1], 2 * num_seeds))

\* with map_seed_manager(initial_seed): lines 273-276
W_EnterScope(initial_seed) ==
  /\ wideFrames = <<>> /\ wideCalls = <<>>
  /\ wideFrames' = Append(wideFrames, [old_map_seed |-> wideSeed])
  /\ wideSeed' = initial_seed
  /\ UNCHANGED <<wideCalls, seedVars, cacheVars, stageVars, deriveVars>>

\* the with-body ends normally: line 277
W_ExitScope ==
  /\ wideFrames # <<>>
  /\ wideSeed' = wideFrames[Len(wideFrames)].old_map_seed
  /\ wideFrames' = SubSeq(wideFrames, 1, Len(wideFrames) - 1)
  /\ UNCHANGED <<wideCalls, seedVars, cacheVars, stageVars, deriveVars>>

\* one invocation of a stage with num_seeds seeds: lines 316-323
W_WrappedFn(num_seeds) ==
  /\ Len(wideCalls) < MaxWideCalls
  /\ wideCalls' = Append(wideCalls,
       [base |-> wideSeed, num_seeds |-> num_seeds,
        seeds |-> wide_random_ds_seeds(wideSeed, num_seeds)])
  /\ wideSeed' = wide_advance(wideSeed, num_seeds)
  /\ UNCHANGED <<wideFrames, seedVars, cacheVars, stageVars, deriveVars>>

WideInit ==
  /\ wideSeed = None
  /\ wideFrames = <<>>
  /\ wideCalls = <<>>

(* --------------- wrapped_fn entered by several threads ----------------- *)
\* Each thread invokes one seeded stage.  Lines 317-323 read the global
\* _NEXT_MAP_SEED four times and write it once, with no lock of their own; a
\* caller may hold a lock of its own around the invocation (locked), or not.

\* the thread calls the stage, after taking the caller's lock if it uses one
D_Call(t, num_seeds, locked) ==
  /\ derive[t].pc = "idle"
  /\ locked => mutex = 0
  /\ mutex' = IF locked THEN t ELSE mutex
  /\ derive' = [derive EXCEPT ![t] =
       [pc |-> "test", locked |-> locked, num_seeds |-> num_seeds]]
  /\ UNCHANGED <<seedVars, cacheVars, stageVars, wideVars>>

\* line 317: if _NEXT_MAP_SEED is None; on that branch line 318 ends the derivation
D_Test(t) ==
  /\ derive[t].pc = "test"
  /\ IF NEXT_MAP_SEED = None
       THEN /\ derive' = [derive EXCEPT ![t] =
                 [pc |-> "done", locked |-> derive[t].locked,
                  num_seeds |-> derive[t].num_seeds,
                  seeds |-> random_ds_seeds(None, derive[t].num_seeds)]]
            /\ mutex' = IF derive[t].locked THEN 0 ELSE mutex
       ELSE /\ derive' = [derive EXCEPT ![t].pc = "read_lo"]
            /\ UNCHANGED mutex
  /\ UNCHANGED <<seedVars, cacheVars, stageVars, wideVars>>

\* line 321, first argument of np.arange: a read of _NEXT_MAP_SEED
D_ReadLo(t) ==
  /\ derive[t].pc = "read_lo"
  /\ derive' = [derive EXCEPT ![t] =
       [pc |-> "read_hi", locked |-> derive[t].locked,
        num_seeds |-> derive[t].num_seeds, lo |-> NEXT_MAP_SEED[1]]]
  /\ UNCHANGED <<mutex, seedVars, cacheVars, stageVars, wideVars>>

\* line 321, second argument: another read of _NEXT_MAP_SEED, + 2 * num_seeds;
\* lines 320-322 then build the seeds from the two values
D_ReadHi(t) ==
  /\ derive[t].pc = "read_hi"
  /\ derive' = [derive EXCEPT ![t] =
       [pc |-> "load", locked |-> derive[t].locked,
        num_seeds |-> derive[t].num_seeds,
        seeds |-> reshape2(arange(derive[t].lo,
                                  NEXT_MAP_SEED[1] + 2 * derive[t].num_seeds))]]
  /\ UNCHANGED <<mutex, seedVars, cacheVars, stageVars, wideVars>>

\* line 323, the read of "+=": _NEXT_MAP_SEED is loaded
D_Load(t) ==
  /\ derive[t].pc = "load"
  /\ derive' = [derive EXCEPT ![t] =
       [pc |-> "store", locked |-> derive[t].locked,
        num_seeds |-> derive[t].num_seeds, seeds |-> derive[t].seeds,
        loaded |-> NEXT_MAP_SEED]]
  /\ UNCHANGED <<mutex, seedVars, cacheVars, stageVars, wideVars>>

\* line 323, the write of "+=": the loaded value + 2 * num_seeds is stored;
\* the invocation returns and the caller releases its lock
D_Store(t) ==
  /\ derive[t].pc = "store"
  /\ NEXT_MAP_SEED' = advance(derive[t].loaded, derive[t].num_seeds)
  /\ derive' = [derive EXCEPT ![t] =
       [pc |-> "done", locked |-> derive[t].locked,
        num_seeds |-> derive[t].num_seeds, seeds |-> derive[t].seeds]]
  /\ mutex' = IF derive[t].locked THEN 0 ELSE mutex
  /\ UNCHANGED <<frames, scopes, calls, lastExit, cacheVars, stageVars, wideVars>>

DeriveInit ==
  /\ mutex = 0
  /\ derive = [t \in Threads |-> [pc |-> "idle"]]

(* ------------------------- LazyTfdsLoader ------------------------------ *)
\* Python truthiness of an optional string: None and "" are falsy
truthy(x) == x # None /\ x # Some("")

\* a mutant of data_dir: "if _TFDS_DATA_DIR_OVERRIDE is not None"
data_dir_is_not_none(l, override) == IF override # None THEN override ELSE l.data_dir

\* lines 94-102: the data_dir property
data_dir(l, override) == IF truthy(override) THEN override ELSE l.data_dir

\* lines 96-100: the warning is logged when both are truthy
data_dir_warns(l, override) == truthy(override) /\ truthy(l.data_dir)

\* a mutant of builder_key: the registry is keyed by the name alone
builder_key_name_only(l, override) == <<l.name, None>>

\* line 106: builder_key = (self.name, self.data_dir)
builder_key(l, override) == <<l.name, data_dir(l, override)>>

\* a mutant of memoized: the registry is never consulted
memoized_never(key, cache) == FALSE

\* line 107: builder_key not in LazyTfdsLoader._MEMOIZED_BUILDERS
memoized(key, cache) == key \in DOMAIN cache

\* lines 108-109: the object a successful tfds.builder(name, data_dir=...) call
\* returns; every call returns a new object, identified by the call's number
new_builder(name, dir, n) == [id |-> n, name |-> name, data_dir |-> dir]

\* line 108: _MEMOIZED_BUILDERS[builder_key] = ...
store(cache, key, b) == [k \in DOMAIN cache \cup {key} |-> IF k = key THEN b ELSE cache[k]]

\* a mutant of cache_after_call: the entry is stored although tfds.builder raised
cache_after_call_poisoned(cache, key, b, ok) == store(cache, key, b)

\* lines 108-109 as one statement: the assignment happens only when the
\* right-hand side, tfds.builder(...), returns; when it raises, nothing is stored
cache_after_call(cache, key, b, ok) == IF ok THEN store(cache, key, b) ELSE cache

\* a mutant of map_split: the split map is ignored
map_split_ignored(l, split) == [raised |-> "", value |-> split]

\* line 117: self._split_map[split] if self._split_map else split
\* (a dict lookup of a missing key raises KeyError)
map_split(l, split) ==
  IF l.split_map # None /\ l.split_map # Some(<<>>)
    THEN IF split \in DOMAIN l.split_map[1]
           THEN [raised |-> "", value |-> l.split_map[1][split]]
           ELSE [raised |-> "KeyError", value |-> ""]
    ELSE [raised |-> "", value |-> split]

\* lines 48-50
SetOverride(tfds_data_dir) ==
  /\ TFDS_DATA_DIR_OVERRIDE' = tfds_data_dir
  /\ ret' = [op |-> "set_tfds_data_dir_override", arg |-> tfds_data_dir]
  /\ UNCHANGED <<MEMOIZED_BUILDERS, tfdsCalls, threads, seedVars, extVars>>

\* one read of loader.data_dir (lines 94-102)
DataDir(l) ==
  /\ ret' = [op |-> "data_dir", loader |-> l, override |-> TFDS_DATA_DIR_OVERRIDE,
             value |-> data_dir(l, TFDS_DATA_DIR_OVERRIDE),
             warned |-> data_dir_warns(l, TFDS_DATA_DIR_OVERRIDE)]
  /\ UNCHANGED <<TFDS_DATA_DIR_OVERRIDE, MEMOIZED_BUILDERS, tfdsCalls, threads, seedVars, extVars>>

\* one call of loader._map_split(split) (lines 116-117)
MapSplit(l, split) ==
  /\ ret' = [op |-> "_map_split", loader |-> l, split |-> split,
             outcome |-> map_split(l, split)]
  /\ UNCHANGED <<TFDS_DATA_DIR_OVERRIDE, MEMOIZED_BUILDERS, tfdsCalls, threads, seedVars, extVars>>

\* one read of loader.builder by a single-threaded program (lines 104-110);
\* ok is whether tfds.builder returns (TRUE) or raises (FALSE)
Builder(l, ok) ==
  LET key == builder_key(l, TFDS_DATA_DIR_OVERRIDE)
      dir == data_dir(l, TFDS_DATA_DIR_OVERRIDE)
      n   == Len(tfdsCalls) + 1
      b   == new_builder(l.name, dir, n)
  IN
  IF memoized(key, MEMOIZED_BUILDERS)
    THEN /\ ret' = [op |-> "builder", loader |-> l, key |-> key, hit |-> TRUE,
                    raised |-> FALSE, value |-> Some(MEMOIZED_BUILDERS[key])]
         /\ UNCHANGED <<TFDS_DATA_DIR_OVERRIDE, MEMOIZED_BUILDERS, tfdsCalls, threads, seedVars, extVars>>
    ELSE /\ Len(tfdsCalls) < MaxBuilds
         /\ tfdsCalls' = Append(tfdsCalls, [name |-> l.name, data_dir |-> dir, ok |-> ok])
         /\ MEMOIZED_BUILDERS' = cache_after_call(MEMOIZED_BUILDERS, key, b, ok)
         /\ ret' = [op |-> "builder", loader |-> l, key |-> key, hit |-> FALSE,
                    raised |-> ~ok,
                    value |-> IF ok THEN Some(MEMOIZED_BUILDERS'[key]) ELSE None]
         /\ UNCHANGED <<TFDS_DATA_DIR_OVERRIDE, threads, seedVars, extVars>>

SeedInit ==
  /\ NEXT_MAP_SEED = None
  /\ frames = <<>>
  /\ scopes = <<>>
  /\ calls = <<>>
  /\ lastExit = [how |-> "none", scope |-> 0, before_entry |-> None, after |-> None]

(* ------------------ LazyTfdsLoader.files and size ----------------------- *)
\* the characters of the names used, for the test "/" not in self.name
Chars(name) ==
  CASE name = "ds" -> <<"d", "s">>
    [] name = "ds/cfg" -> <<"d", "s", "/", "c", "f", "g">>

\* line 123: "/" in self.name
contains_slash(name) == \E i \in DOMAIN Chars(name) : Chars(name)[i] = "/"

\* a mutant of files_outcome: the test of line 131 is missing
files_outcome_unchecked(name, ms, loaded, configs) ==
  IF ms.raised # "" THEN [raised |-> ms.raised, value |-> <<>>]
  ELSE IF ~loaded THEN [raised |-> "BuilderError", value |-> <<>>]
  ELSE IF ~contains_slash(name) /\ configs # <<>>
    THEN [raised |-> "ValueError", value |-> <<>>]
  ELSE IF ms.value \notin DOMAIN SplitInfos THEN [raised |-> "KeyError", value |-> <<>>]
  ELSE [raised |-> "", value |-> SplitInfos[ms.value].file_instructions]

\* lines 119-133: how files(split) ends.  ms is the outcome of _map_split
\* (line 121), loaded is whether self.builder could be read, configs is
\* builder.BUILDER_CONFIGS.  logging.fatal (line 132) logs and aborts the
\* process, so line 133 is not reached after it.
files_outcome(name, ms, loaded, configs) ==
  IF ms.raised # "" THEN [raised |-> ms.raised, value |-> <<>>]
  ELSE IF ~loaded THEN [raised |-> "BuilderError", value |-> <<>>]
  ELSE IF ~contains_slash(name) /\ configs # <<>>
    THEN [raised |-> "ValueError", value |-> <<>>]
  ELSE IF ms.value \notin DOMAIN SplitInfos THEN [raised |-> "KeyError", value |-> <<>>]
  ELSE IF SplitInfos[ms.value].file_instructions = <<>>
    THEN [raised |-> "fatal", value |-> <<>>]
  ELSE [raised |-> "", value |-> SplitInfos[ms.value].file_instructions]

\* a mutant of size_outcome: the declared count is returned as it is
size_outcome_raw(ms, loaded) ==
  IF ms.raised # "" THEN [raised |-> ms.raised, value |-> <<>>]
  ELSE IF ~loaded THEN [raised |-> "BuilderError", value |-> <<>>]
  ELSE IF ms.value \notin DOMAIN SplitInfos THEN [raised |-> "KeyError", value |-> <<>>]
  ELSE [raised |-> "", value |-> <<"int", SplitInfos[ms.value].num_examples>>]

\* lines 159-166: how size(split) ends; np.inf is <<"inf">>, an integer n is
\* <<"int", n>>
size_outcome(ms, loaded) ==
  IF ms.raised # "" THEN [raised |-> ms.raised, value |-> <<>>]
  ELSE IF ~loaded THEN [raised |-> "BuilderError", value |-> <<>>]
  ELSE IF ms.value \notin DOMAIN SplitInfos THEN [raised |-> "KeyError", value |-> <<>>]
  ELSE IF SplitInfos[ms.value].num_examples > 0
    THEN [raised |-> "", value |-> <<"int", SplitInfos[ms.value].num_examples>>]
  ELSE [raised |-> "", value |-> <<"inf">>]

\* the process was aborted by logging.fatal
Aborted == ret.op = "files" /\ ret.outcome.raised = "fatal"

\* the reads of self.builder made by files and size (lines 123, 128, 162):
\* the first one constructs the builder when the key is not memoized, the
\* later ones are hits; nothing is read when _map_split raised
ReadBuilder(l, ms, ok) ==
  LET key == builder_key(l, TFDS_DATA_DIR_OVERRIDE)
      dir == data_dir(l, TFDS_DATA_DIR_OVERRIDE)
      b   == new_builder(l.name, dir, Len(tfdsCalls) + 1)
  IN
  IF ms.raised # "" \/ memoized(key, MEMOIZED_BUILDERS)
    THEN UNCHANGED <<MEMOIZED_BUILDERS, tfdsCalls>>
    ELSE /\ Len(tfdsCalls) < MaxBuilds
         /\ tfdsCalls' = Append(tfdsCalls, [name |-> l.name, data_dir |-> dir, ok |-> ok])
         /\ MEMOIZED_BUILDERS' = cache_after_call(MEMOIZED_BUILDERS, key, b, ok)

\* whether self.builder could be read
Loaded(l, ok) == memoized(builder_key(l, TFDS_DATA_DIR_OVERRIDE), MEMOIZED_BUILDERS) \/ ok

\* one call of loader.files(split) (lines 119-133)
Files(l, split, ok, configs) ==
  /\ ~Aborted
  /\ LET ms == map_split(l, split) IN
       /\ ReadBuilder(l, ms, ok)
       /\ ret' = [op |-> "files", loader |-> l, split |-> split, resolved |-> ms,
                  loaded |-> Loaded(l, ok), configs |-> configs,
                  outcome |-> files_outcome(l.name, ms, Loaded(l, ok), configs)]
  /\ UNCHANGED <<TFDS_DATA_DIR_OVERRIDE, threads, seedVars, extVars>>

\* one call of loader.size(split) (lines 159-166)
Size(l, split, ok) ==
  /\ ~Aborted
  /\ LET ms == map_split(l, split) IN
       /\ ReadBuilder(l, ms, ok)
       /\ ret' = [op |-> "size", loader |-> l, split |-> split, resolved |-> ms,
                  loaded |-> Loaded(l, ok),
                  outcome |-> size_outcome(ms, Loaded(l, ok))]
  /\ UNCHANGED <<TFDS_DATA_DIR_OVERRIDE, threads, seedVars, extVars>>

(* ------------- LazyTfdsLoader.builder read by several threads ---------- *)
\* Each thread reads loader.builder once.  The property takes no lock, so the
\* threads interleave between its statements; tfds.builder does file I/O and
\* can run for a long time between the test of line 107 and the store of 108.

\* line 106: builder_key = (self.name, self.data_dir)
T_Key(t, l) ==
  /\ threads[t].pc = "idle"
  /\ threads' = [threads EXCEPT ![t] =
       [pc |-> "check", loader |-> l, key |-> builder_key(l, TFDS_DATA_DIR_OVERRIDE)]]
  /\ UNCHANGED <<TFDS_DATA_DIR_OVERRIDE, MEMOIZED_BUILDERS, tfdsCalls, ret, seedVars, extVars>>

\* line 107: if builder_key not in LazyTfdsLoader._MEMOIZED_BUILDERS
T_Check(t) ==
  /\ threads[t].pc = "check"
  /\ threads' = [threads EXCEPT ![t].pc =
       IF memoized(threads[t].key, MEMOIZED_BUILDERS) THEN "return" ELSE "call"]
  /\ UNCHANGED <<TFDS_DATA_DIR_OVERRIDE, MEMOIZED_BUILDERS, tfdsCalls, ret, seedVars, extVars>>

\* lines 108-109, right-hand side: tfds.builder(self.name, data_dir=self.data_dir);
\* self.data_dir is evaluated again here
T_Call(t, ok) ==
  /\ threads[t].pc = "call"
  /\ Len(tfdsCalls) < MaxBuilds
  /\ LET l   == threads[t].loader
         dir == data_dir(l, TFDS_DATA_DIR_OVERRIDE)
         n   == Len(tfdsCalls) + 1
     IN
       /\ tfdsCalls' = Append(tfdsCalls, [name |-> l.name, data_dir |-> dir, ok |-> ok])
       /\ threads' = [threads EXCEPT ![t] =
            IF ok
              THEN [pc |-> "store", loader |-> l, key |-> threads[t].key,
                    built |-> new_builder(l.name, dir, n)]
              ELSE [pc |-> "raised", loader |-> l, key |-> threads[t].key]]
  /\ UNCHANGED <<TFDS_DATA_DIR_OVERRIDE, MEMOIZED_BUILDERS, ret, seedVars, extVars>>

\* line 108, the assignment: _MEMOIZED_BUILDERS[builder_key] = <the new builder>
T_Store(t) ==
  /\ threads[t].pc = "store"
  /\ MEMOIZED_BUILDERS' = store(MEMOIZED_BUILDERS, threads[t].key, threads[t].built)
  /\ threads' = [threads EXCEPT ![t] =
       [pc |-> "return", loader |-> threads[t].loader, key |-> threads[t].key]]
  /\ UNCHANGED <<TFDS_DATA_DIR_OVERRIDE, tfdsCalls, ret, seedVars, extVars>>

\* line 110: return LazyTfdsLoader._MEMOIZED_BUILDERS[builder_key]
T_Return(t) ==
  /\ threads[t].pc = "return"
  /\ threads' = [threads EXCEPT ![t] =
       [pc |-> "done", loader |-> threads[t].loader, key |-> threads[t].key,
        value |-> MEMOIZED_BUILDERS[threads[t].key]]]
  /\ UNCHANGED <<TFDS_DATA_DIR_OVERRIDE, MEMOIZED_BUILDERS, tfdsCalls, ret, seedVars, extVars>>

CacheInit ==
  /\ TFDS_DATA_DIR_OVERRIDE = None
  /\ MEMOIZED_BUILDERS = <<>>
  /\ tfdsCalls = <<>>
  /\ ret = [op |-> "none"]
  /\ threads = [t \in Threads |-> [pc |-> "idle"]]

StageInit ==
  /\ stages = <<>>
  /\ evals = {}

Init == SeedInit /\ CacheInit /\ StageInit /\ WideInit /\ DeriveInit

SeedNext ==
  \/ \E s \in InitialSeeds : EnterScope(s)
  \/ ExitScope
  \/ ExitScopeRaise
  \/ \E n \in NumSeeds : WrappedFn(n)

SeedSpec == Init /\ [][SeedNext]_vars

\* a single-threaded program using the builder registry
CacheNext ==
  \/ \E d \in Overrides : SetOverride(d)
  \/ \E l \in Loaders, ok \in BOOLEAN : Builder(l, ok)

CacheSpec == Init /\ [][CacheNext]_vars

\* a single-threaded program resolving directories and splits
QueryNext ==
  \/ \E d \in Overrides : SetOverride(d)
  \/ \E l \in Loaders : DataDir(l)
  \/ \E l \in Loaders, s \in Splits : MapSplit(l, s)

QuerySpec == Init /\ [][QueryNext]_vars

\* a pipeline driver that enters one seed scope, invokes stages and lets the
\* executor evaluate their elements
StageNext ==
  \/ \E s0 \in StageSeeds : scopes = <<>> /\ EnterScope(s0)
  \/ \E n \in StageNumSeeds, size \in ElemCounts : MapWithSeeds(n, size)
  \/ \E size \in ElemCounts : MapWithoutSeeds(size)
  \/ \E j \in 1..MaxStages, i \in ElemCounts : Eval(j, i)

StageSpec == Init /\ [][StageNext]_vars

\* a single-threaded program asking loaders for their files and sizes
FilesNext ==
  \/ \E l \in FileLoaders, s \in Splits, ok \in BOOLEAN, c \in BuilderConfigs :
       Files(l, s, ok, c)
  \/ \E l \in FileLoaders, s \in Splits, ok \in BOOLEAN : Size(l, s, ok)

FilesSpec == Init /\ [][FilesNext]_vars

\* threads reading builders while the override may be changed
ConcNext ==
  \/ \E d \in Overrides : SetOverride(d)
  \/ \E t \in Threads, l \in ConcLoaders : T_Key(t, l)
  \/ \E t \in Threads : T_Check(t)
  \/ \E t \in Threads, ok \in BOOLEAN : T_Call(t, ok)
  \/ \E t \in Threads : T_Store(t)
  \/ \E t \in Threads : T_Return(t)

ConcSpec == Init /\ [][ConcNext]_vars

\* a program that derives seeds from bases near the ends of the int32 range
WideNext ==
  \/ \E s \in WideSeeds : W_EnterScope(s)
  \/ W_ExitScope
  \/ \E n \in NumSeeds : W_WrappedFn(n)

WideSpec == Init /\ [][WideNext]_vars

\* threads invoking seeded stages inside one scope entered beforehand
DeriveNext ==
  \/ \E s0 \in StageSeeds :
       scopes = <<>> /\ (\A t \in Threads : derive[t].pc = "idle") /\ EnterScope(s0)
  \/ \E t \in Threads, n \in NumSeeds, locked \in BOOLEAN :
       scopes # <<>> /\ D_Call(t, n, locked)
  \/ \E t \in Threads : D_Test(t)
  \/ \E t \in Threads : D_ReadLo(t)
  \/ \E t \in Threads : D_ReadHi(t)
  \/ \E t \in Threads : D_Load(t)
  \/ \E t \in Threads : D_Store(t)

DeriveSpec == Init /\ [][DeriveNext]_vars

\* a single-threaded program that uses the registry, the override and the
\* seed scopes together
SeqNext ==
  \/ \E d \in Overrides : SetOverride(d)
  \/ \E l \in ConcLoaders, ok \in BOOLEAN : Builder(l, ok)
  \/ \E s \in SeqSeeds : OpsDone < MaxSeqOps /\ EnterScope(s)
  \/ OpsDone < MaxSeqOps /\ ExitScope
  \/ OpsDone < MaxSeqOps /\ ExitScopeRaise
  \/ \E n \in SeqNumSeeds : OpsDone < MaxSeqOps /\ WrappedFn(n)

SeqSpec == Init /\ [][SeqNext]_vars

(* ===================== properties of the seed counter ================== *)
\* the invocations made while scope s was the active one, in program order
CallsIn(s) == SelectSeq(calls, LAMBDA c : c.scope = s)

\* num_seeds of the first j invocations of cs, added up
RECURSIVE SumSeeds(_, _)
SumSeeds(cs, j) == IF j = 0 THEN 0 ELSE cs[j].num_seeds + SumSeeds(cs, j - 1)

\* the pairs (b + 2i, b + 2i + 1), i = 0 .. n-1
Block(b, n) == [i \in 1..n |-> <<Some(b + 2 * (i - 1)), Some(b + 2 * (i - 1) + 1)>>]

\* the integer components of the seeds of one invocation
Components(c) ==
  {c.seeds[i][k][1] : <<i, k>> \in {p \in (1..Len(c.seeds)) \X {1, 2} : c.seeds[p[1]][p[2]] # None}}

\* C1: in a scope entered with integer base s0 in which no nested scope was
\* entered, invocation j receives exactly the pairs (b_j + 2i, b_j + 2i + 1),
\* i = 0 .. n_j - 1, with b_j = s0 + 2 * (n_1 + ... + n_(j-1)), and the active
\* base after invocation j is s0 + 2 * (n_1 + ... + n_j).
C1_ContiguousBlocks ==
  \A s \in DOMAIN scopes :
    (scopes[s].initial_seed # None /\ ~scopes[s].nested) =>
      LET s0 == scopes[s].initial_seed[1]
          cs == CallsIn(s)
      IN /\ \A j \in DOMAIN cs :
              /\ cs[j].seeds = Block(s0 + 2 * SumSeeds(cs, j - 1), cs[j].num_seeds)
              /\ cs[j].after = Some(s0 + 2 * SumSeeds(cs, j))
         /\ (ActiveScope = s => NEXT_MAP_SEED = Some(s0 + 2 * SumSeeds(cs, Len(cs))))

\* C1 witness: a scope entered with 5, no nested scope, two invocations with
\* counts 2 and 1: the second one received (9, 10) and the base is 11
C1_Witness ==
  \E s \in DOMAIN scopes :
    /\ scopes[s].initial_seed = Some(5) /\ ~scopes[s].nested /\ ActiveScope = s
    /\ Len(CallsIn(s)) = 2
    /\ CallsIn(s)[1].num_seeds = 2
    /\ CallsIn(s)[2].seeds = <<<<Some(9), Some(10)>>>>
    /\ NEXT_MAP_SEED = Some(11)

\* C2: after a scope is left because its body raised, the active base equals
\* the base that was active immediately before the matching scope entry.
C2_RestoredOnFailure ==
  lastExit.how = "raise" => lastExit.after = lastExit.before_entry

\* C3: two seeded invocations made while the same scope was the active one
\* share no integer seed component, whatever was executed between them.
C3_NoOverlapInScope ==
  \A i, j \in DOMAIN calls :
    (i < j /\ calls[i].scope # 0 /\ calls[i].scope = calls[j].scope) =>
      Components(calls[i]) \cap Components(calls[j]) = {}

\* the example of C4: enterScope(5), nextSeeds(1), enterScope(100),
\* nextSeeds(1), exitScope, nextSeeds(1), and nothing else
NestingExample ==
  /\ Len(scopes) = 2 /\ Len(calls) = 3
  /\ scopes[1].initial_seed = Some(5) /\ scopes[1].parent = 0
  /\ scopes[2].initial_seed = Some(100) /\ scopes[2].parent = 1
  /\ scopes[2].status = "exited"
  /\ calls[1].scope = 1 /\ calls[2].scope = 2 /\ calls[3].scope = 1
  /\ \A j \in 1..3 : calls[j].num_seeds = 1
  /\ scopes[2].entry_base = calls[1].after

\* C4: after a normal exit of a scope the active base equals the base that
\* was active when the scope was entered, whatever the scope's initial seed
\* and whatever was dispensed inside it; the example dispenses (5,6),
\* (100,101), (7,8).
C4_StackDiscipline ==
  /\ lastExit.how = "normal" => lastExit.after = lastExit.before_entry
  /\ NestingExample =>
       /\ calls[1].seeds = <<<<Some(5), Some(6)>>>>
       /\ calls[2].seeds = <<<<Some(100), Some(101)>>>>
       /\ calls[3].seeds = <<<<Some(7), Some(8)>>>>

\* C4 witness: the example has run, and the inner scope dispensed seeds
\* before its normal exit gave the outer base back
C4_Witness ==
  /\ NestingExample
  /\ lastExit.how = "normal" /\ lastExit.scope = 2
  /\ lastExit.before_entry = Some(7)
  /\ calls[3].base = Some(7)

\* the sentinel seeds an invocation with count n receives
Sentinels(n) == [i \in 1..n |-> <<None, None>>]

\* C5: with the active base unset an invocation with count n receives n
\* sentinel seeds and leaves the base unset; the base is unset as long as no
\* scope has been entered and right after a scope is entered without an
\* initial seed; an initial seed of 0 is a set base.
C5_UnsetBase ==
  /\ \A j \in DOMAIN calls :
       /\ calls[j].base = None =>
            calls[j].seeds = Sentinels(calls[j].num_seeds) /\ calls[j].after = None
       /\ calls[j].base = Some(0) =>
            /\ calls[j].seeds = Block(0, calls[j].num_seeds)
            /\ calls[j].after = Some(2 * calls[j].num_seeds)
  /\ scopes = <<>> => NEXT_MAP_SEED = None
  /\ \A s \in DOMAIN scopes :
       (scopes[s].initial_seed = None /\ ActiveScope = s /\ ~scopes[s].nested)
         => NEXT_MAP_SEED = None

\* C5 witness: two invocations with no scope entered, then one in a scope
\* entered without an initial seed, all with an unset base
C5_Witness ==
  /\ Len(calls) = 3
  /\ calls[1].scope = 0 /\ calls[2].scope = 0 /\ calls[3].scope # 0
  /\ \A j \in 1..3 : calls[j].base = None
  /\ calls[3].num_seeds = 2
  /\ NEXT_MAP_SEED = None

(* ==================== properties of the builder registry =============== *)
\* the numbers of the tfds.builder invocations made with name and directory k
CallsFor(k) == {i \in DOMAIN tfdsCalls : <<tfdsCalls[i].name, tfdsCalls[i].data_dir>> = k}

\* ... and those among them that returned a builder
LoadsFor(k) == {i \in CallsFor(k) : tfdsCalls[i].ok}

\* C6: in a single-threaded program the builder stored under a key (name,
\* directory) was constructed by exactly one tfds.builder invocation, made
\* with that name and directory, and no invocation for that key follows it;
\* every access that returns gives back the instance stored under the key
\* made of the loader's name and resolved directory, a hit without any
\* invocation; different keys (None and "" are different directories) hold
\* different instances.
C6_SequentialMemoization ==
  /\ \A k \in DOMAIN MEMOIZED_BUILDERS :
       /\ Cardinality(LoadsFor(k)) = 1
       /\ \A i \in LoadsFor(k) :
            /\ MEMOIZED_BUILDERS[k].id = i
            /\ \A j \in CallsFor(k) : j <= i
       /\ <<MEMOIZED_BUILDERS[k].name, MEMOIZED_BUILDERS[k].data_dir>> = k
  /\ \A k1, k2 \in DOMAIN MEMOIZED_BUILDERS :
       (MEMOIZED_BUILDERS[k1].id = MEMOIZED_BUILDERS[k2].id) <=> (k1 = k2)
  /\ (ret.op = "builder" /\ ~ret.raised) =>
       /\ ret.key \in DOMAIN MEMOIZED_BUILDERS
       /\ ret.value = Some(MEMOIZED_BUILDERS[ret.key])
       /\ ret.key[1] = ret.loader.name
       /\ ret.hit => MEMOIZED_BUILDERS[ret.key].id <= Len(tfdsCalls)
       /\ ~ret.hit => MEMOIZED_BUILDERS[ret.key].id = Len(tfdsCalls)

\* C6 witness: ("ds", None) and ("ds", "") are both stored, as different
\* instances built by the only two invocations made, and the last access,
\* through another loader with the key ("ds", None), was a hit that returned
\* the first instance
C6_Witness ==
  /\ DOMAIN MEMOIZED_BUILDERS = {<<"ds", None>>, <<"ds", Some("")>>}
  /\ Len(tfdsCalls) = 2
  /\ MEMOIZED_BUILDERS[<<"ds", None>>].id = 1
  /\ MEMOIZED_BUILDERS[<<"ds", Some("")>>].id = 2
  /\ ret.op = "builder" /\ ret.hit
  /\ ret.key = <<"ds", None>>
  /\ ret.loader.split_map # None
  /\ ret.value = Some(MEMOIZED_BUILDERS[<<"ds", None>>])

\* C7: when several threads read the builder for the same absent key, under
\* every interleaving tfds.builder returns a builder for that key at most
\* once and all the accesses return the same instance.
C7_OneLoadPerKey ==
  /\ \A k \in Names \X (Dirs \cup Overrides) : Cardinality(LoadsFor(k)) <= 1
  /\ \A t1, t2 \in Threads :
       (threads[t1].pc = "done" /\ threads[t2].pc = "done"
          /\ threads[t1].key = threads[t2].key)
         => threads[t1].value = threads[t2].value

\* the step is an access whose tfds.builder invocation raised
FailedLoad ==
  /\ Len(tfdsCalls') = Len(tfdsCalls) + 1
  /\ ~tfdsCalls'[Len(tfdsCalls')].ok

\* C8: an access whose tfds.builder invocation raises propagates the error,
\* stores nothing and leaves every entry as it was; a key whose invocations
\* all raised has no entry, and an access for it that later succeeds returns
\* the builder of its own invocation, which is then the stored one.
C8_FailureNotCached ==
  /\ [][FailedLoad =>
          /\ MEMOIZED_BUILDERS' = MEMOIZED_BUILDERS
          /\ ret'.op = "builder" /\ ret'.raised /\ ret'.value = None
          /\ ret'.key \notin DOMAIN MEMOIZED_BUILDERS']_vars
  /\ [](\A k \in Names \X (Dirs \cup Overrides) :
          /\ LoadsFor(k) = {} => k \notin DOMAIN MEMOIZED_BUILDERS
          /\ k \in DOMAIN MEMOIZED_BUILDERS => MEMOIZED_BUILDERS[k].id \in LoadsFor(k))
  /\ []((ret.op = "builder" /\ ~ret.hit /\ ~ret.raised) =>
          /\ tfdsCalls[Len(tfdsCalls)].ok
          /\ ret.value = Some(MEMOIZED_BUILDERS[ret.key])
          /\ MEMOIZED_BUILDERS[ret.key].id = Len(tfdsCalls))

\* C8 witness: the first invocation for ("ds", None) raised, the second one,
\* for the same key, returned, and its builder is the stored and returned one
C8_Witness ==
  /\ Len(tfdsCalls) = 2
  /\ CallsFor(<<"ds", None>>) = {1, 2}
  /\ ~tfdsCalls[1].ok /\ tfdsCalls[2].ok
  /\ ret.op = "builder" /\ ~ret.hit /\ ~ret.raised
  /\ ret.value = Some(MEMOIZED_BUILDERS[<<"ds", None>>])
  /\ MEMOIZED_BUILDERS[<<"ds", None>>].id = 2

(* ================= properties of split and directory resolution ========= *)
\* a loader's split map is a non-empty dict with key s
HasKey(l, s) ==
  l.split_map # None /\ l.split_map # Some(<<>>) /\ s \in DOMAIN l.split_map[1]

\* C9, as claimed: resolution returns M[s] when s is a key of M, and returns s
\* unchanged when s is not a key of M or no split map was supplied.
C9_UnmappedPassThrough ==
  ret.op = "_map_split" =>
    /\ ret.outcome.raised = ""
    /\ ret.outcome.value =
         IF HasKey(ret.loader, ret.split) THEN ret.loader.split_map[1][ret.split]
         ELSE ret.split

\* C9, amended: resolution returns M[s] when s is a key of M; returns s
\* unchanged when no split map was supplied or the map is empty; and raises
\* KeyError when M is not empty and s is not one of its keys.
C9_SplitResolution ==
  ret.op = "_map_split" =>
    LET l == ret.loader
        s == ret.split
    IN /\ HasKey(l, s) =>
            ret.outcome = [raised |-> "", value |-> l.split_map[1][s]]
       /\ (l.split_map = None \/ l.split_map = Some(<<>>)) =>
            ret.outcome = [raised |-> "", value |-> s]
       /\ (l.split_map # None /\ l.split_map # Some(<<>>) /\ ~HasKey(l, s)) =>
            ret.outcome.raised = "KeyError"

\* C9 witness: with M = {"validation": "train[:1%]"}, "validation" resolved
\* to "train[:1%]"
C9_Witness ==
  /\ ret.op = "_map_split"
  /\ ret.loader.split_map = Some([validation |-> "train[:1%]"])
  /\ ret.split = "validation"
  /\ ret.outcome = [raised |-> "", value |-> "train[:1%]"]

\* C10, as claimed: data_dir is the override whenever the override is set to
\* any string, and the loader's own directory whenever it is absent.
C10_AnyStringOverrides ==
  \A l \in Loaders :
    data_dir(l, TFDS_DATA_DIR_OVERRIDE) =
      IF TFDS_DATA_DIR_OVERRIDE # None THEN TFDS_DATA_DIR_OVERRIDE ELSE l.data_dir

\* C10, amended: at every moment and for every loader, data_dir is the
\* override whenever the override is a non-empty string, and the loader's own
\* directory (possibly absent) whenever the override is absent or the empty
\* string; set_tfds_data_dir_override(None) clears a set override.
C10_DirectoryResolution ==
  /\ \A l \in Loaders :
       data_dir(l, TFDS_DATA_DIR_OVERRIDE) =
         IF TFDS_DATA_DIR_OVERRIDE \notin {None, Some("")}
           THEN TFDS_DATA_DIR_OVERRIDE
           ELSE l.data_dir
  /\ ret.op = "data_dir" =>
       /\ ret.override = TFDS_DATA_DIR_OVERRIDE
       /\ ret.value = IF ret.override \notin {None, Some("")}
                        THEN ret.override ELSE ret.loader.data_dir
  /\ ret.op = "set_tfds_data_dir_override" => TFDS_DATA_DIR_OVERRIDE = ret.arg

\* C10 witness: a loader constructed with "d1" resolved its directory to the
\* override "d2"
C10_Witness ==
  /\ ret.op = "data_dir"
  /\ ret.loader.data_dir = Some("d1")
  /\ TFDS_DATA_DIR_OVERRIDE = Some("d2")
  /\ ret.value = Some("d2")

(* ======================= properties of files and size ================== *)
\* the last call read the declaration of its resolved split: _map_split
\* returned, the builder could be read and the split is one of the dataset's
ReadSplit ==
  /\ ret.resolved.raised = ""
  /\ ret.loaded
  /\ ret.resolved.value \in DOMAIN SplitInfos

\* the file instructions the resolved split of the last call declares
DeclaredFiles == SplitInfos[ret.resolved.value].file_instructions

\* the example count the resolved split of the last call declares
DeclaredCount == SplitInfos[ret.resolved.value].num_examples

\* C11, as claimed: for any split whose resolved split yields zero file
\* instructions files(split) ends in the fatal condition and never returns
\* an empty sequence; with at least one file instruction it returns that
\* sequence in order.
C11_EmptyAlwaysFatal ==
  (ret.op = "files" /\ ReadSplit) =>
    /\ DeclaredFiles = <<>> => ret.outcome.raised = "fatal"
    /\ DeclaredFiles # <<>> => ret.outcome = [raised |-> "", value |-> DeclaredFiles]

\* C11, amended: files(split) never returns an empty sequence; unless the
\* configuration error is raised first (the name has no "/" and the builder
\* declares configurations), a resolved split with zero file instructions
\* ends in the fatal condition and one with at least one file instruction
\* returns that sequence in order.
C11_EmptyShardListFatal ==
  ret.op = "files" =>
    /\ ret.outcome.raised = "" => ret.outcome.value # <<>>
    /\ (ReadSplit /\ (contains_slash(ret.loader.name) \/ ret.configs = <<>>)) =>
         /\ DeclaredFiles = <<>> => ret.outcome.raised = "fatal"
         /\ DeclaredFiles # <<>> =>
              ret.outcome = [raised |-> "", value |-> DeclaredFiles]

\* C11 witness: files("validation") on a loader that maps it to
\* "train[:1%]", which has no file instruction, ended in the fatal condition
C11_Witness ==
  /\ ret.op = "files" /\ ReadSplit
  /\ ret.split = "validation" /\ ret.resolved.value = "train[:1%]"
  /\ DeclaredFiles = <<>>
  /\ ret.outcome.raised = "fatal"

\* C12: files(split), once the builder is read, fails with the configuration
\* error exactly when the builder declares multiple (two or more) named
\* configurations and the loader's name contains no "/"; the error comes
\* before the empty-shard-list fatal condition.
C12_ConfigErrorIffMultiple ==
  (ret.op = "files" /\ ret.resolved.raised = "" /\ ret.loaded) =>
    (ret.outcome.raised = "ValueError"
       <=> (Len(ret.configs) >= 2 /\ ~contains_slash(ret.loader.name)))

\* C13: size(split) returns the example count declared for the resolved
\* (split-mapped) split when that count is positive, and np.inf, which is
\* no integer, when the count is zero or negative.
C13_SizeSentinel ==
  (ret.op = "size" /\ ReadSplit) =>
    /\ ret.resolved = map_split(ret.loader, ret.split)
    /\ ret.outcome.raised = ""
    /\ DeclaredCount > 0 => ret.outcome.value = <<"int", DeclaredCount>>
    /\ DeclaredCount <= 0 =>
         /\ ret.outcome.value = <<"inf">>
         /\ \A n \in -1..3 : ret.outcome.value # <<"int", n>>

\* C13 witness: size("validation") on a loader that maps it to "train[:1%]",
\* whose declared count is 0, returned np.inf
C13_Witness ==
  /\ ret.op = "size" /\ ReadSplit
  /\ ret.split = "validation" /\ ret.resolved.value = "train[:1%]"
  /\ DeclaredCount = 0
  /\ ret.outcome = [raised |-> "", value |-> <<"inf">>]

(* ===================== properties of the mapped stages ================= *)
\* the seeded stages invoked while scope sc was the active one, in order
SeededIn(sc) ==
  SelectSeq(stages, LAMBDA st :
    st.decorator = "map_with_seeds" /\ st.num_seeds >= 1 /\ st.scope = sc)

\* C14: one invocation of a stage with num_seeds = n >= 1 advances a set base
\* by exactly 2 * n, once, whatever the number of elements of its input (0, 1
\* or more) and however many elements the executor has evaluated: the base
\* is the scope's initial seed plus 2 * n for each seeded invocation made.
C14_OneDerivationPerInvocation ==
  /\ \A j \in DOMAIN stages :
       (stages[j].decorator = "map_with_seeds" /\ stages[j].num_seeds >= 1
          /\ stages[j].base # None)
         => stages[j].after = Some(stages[j].base[1] + 2 * stages[j].num_seeds)
  /\ (ActiveScope = 1 /\ scopes[1].initial_seed # None) =>
       NEXT_MAP_SEED =
         Some(scopes[1].initial_seed[1] + 2 * SumSeeds(SeededIn(1), Len(SeededIn(1))))

\* C14 witness: in a scope entered with 5, a stage with 2 seeds on an empty
\* dataset and a stage with 1 seed on two elements, both evaluated: base 11
C14_Witness ==
  /\ ActiveScope = 1 /\ scopes[1].initial_seed = Some(5)
  /\ Len(stages) = 2
  /\ stages[1].num_seeds = 2 /\ stages[1].size = 0 /\ stages[1].scope = 1
  /\ stages[2].num_seeds = 1 /\ stages[2].size = 2
  /\ {e.index : e \in {x \in evals : x.stage = 2}} = {1, 2}
  /\ NEXT_MAP_SEED = Some(11)

\* C15, as claimed: with num_seeds = 1 the seed keyword of every call of fn
\* under one invocation is the single pair that the invocation derived,
\* (base, base + 1) when the base is set.
C15_SeedIsDispensedPair ==
  \A e \in evals :
    (stages[e.stage].decorator = "map_with_seeds" /\ stages[e.stage].num_seeds = 1) =>
      e.kwargs = [kw |-> "seed", value |-> stages[e.stage].seeds[1]]

\* C15, amended: with num_seeds = 1 the seed keyword of the call of fn on the
\* i-th element is the pair of the i-th elements of the two RandomDatasets
\* seeded with the two components of the single pair the invocation derived;
\* it is derived from that one pair for every element, is not that pair, and
\* differs from one element to the next.
C15_SeedDrawnPerElement ==
  \A e \in evals :
    (stages[e.stage].decorator = "map_with_seeds" /\ stages[e.stage].num_seeds = 1) =>
      LET pair == stages[e.stage].seeds[1] IN
        /\ Len(stages[e.stage].seeds) = 1
        /\ stages[e.stage].base # None =>
             pair = <<Some(stages[e.stage].base[1]), Some(stages[e.stage].base[1] + 1)>>
        /\ e.kwargs.kw = "seed"
        /\ e.kwargs.value =
             <<RandomDataset(pair[1], e.index), RandomDataset(pair[2], e.index)>>
        /\ e.kwargs.value # pair
        /\ \A f \in evals :
             (f.stage = e.stage /\ f.index # e.index) => f.kwargs.value # e.kwargs.value

\* C15 witness: both elements of a stage with one seed, invoked with base 5,
\* were evaluated
C15_Witness ==
  \E e, f \in evals :
    /\ e.stage = f.stage /\ e.index = 1 /\ f.index = 2
    /\ stages[e.stage].num_seeds = 1
    /\ stages[e.stage].base = Some(5)
    /\ e.kwargs.kw = "seed"

\* C16: a stage declared with num_seeds = 0, by map_over_dataset(fn) or by
\* map_over_dataset(num_seeds=0), calls fn with no seed or seeds keyword and
\* leaves the active base as it was.
C16_NoSeedArguments ==
  /\ \A j \in DOMAIN stages :
       stages[j].num_seeds = 0 => stages[j].after = stages[j].base
  /\ \A e \in evals :
       stages[e.stage].num_seeds = 0 => e.kwargs.kw = "none"

(* ================ properties of the width of the seeds ================= *)
\* C17: every component of every seed dispensed from a set base lies in the
\* signed 32-bit range -2^31 .. 2^31 - 1.
C17_SeedsAreInt32 ==
  \A i \in DOMAIN wideCalls :
    wideCalls[i].base # None =>
      \A j \in DOMAIN wideCalls[i].seeds, c \in {1, 2} :
        is_int32(wideCalls[i].seeds[j][c][1])

(* ============== properties of concurrent seed derivation =============== *)
\* the threads that have called their stage, and those whose call returned
Started == {t \in Threads : derive[t].pc # "idle"}
Derived == {t \in Threads : derive[t].pc = "done"}

\* num_seeds of the threads of T, added up
RECURSIVE SumThreads(_)
SumThreads(T) ==
  IF T = {} THEN 0
  ELSE LET t == CHOOSE x \in T : TRUE IN derive[t].num_seeds + SumThreads(T \ {t})

\* C18: when every invocation runs as one critical section (all callers hold
\* the lock), under every ordering each invocation gets its num_seeds pairs,
\* the blocks of different invocations are disjoint, and once all have
\* returned the base is the initial seed plus 2 * (n_A + n_B + ...).
C18_SerializedDerivation ==
  ((\A t \in Started : derive[t].locked)
     /\ scopes # <<>> /\ scopes[1].initial_seed # None) =>
    /\ \A t \in Derived : Len(derive[t].seeds) = derive[t].num_seeds
    /\ \A a, b \in Derived :
         a # b => Components(derive[a]) \cap Components(derive[b]) = {}
    /\ Started = Derived =>
         NEXT_MAP_SEED = Some(scopes[1].initial_seed[1] + 2 * SumThreads(Derived))

\* C18 witness: two invocations that ran without the lock have both returned
\* holding a common seed component, and the base advanced by less than
\* 2 * (n_A + n_B)
C18_Witness ==
  /\ scopes # <<>> /\ scopes[1].initial_seed # None
  /\ Derived = {1, 2} /\ Started = Derived
  /\ ~derive[1].locked /\ ~derive[2].locked
  /\ Components(derive[1]) \cap Components(derive[2]) # {}
  /\ NEXT_MAP_SEED[1] < scopes[1].initial_seed[1] + 2 * SumThreads(Derived)

(* ================= properties of the registry over time ================ *)
\* C19: in a single-threaded program no step (builder access for any key,
\* failing load, set_tfds_data_dir_override, seed-scope operation) removes or
\* replaces an entry of the registry, and an access that hits returns the
\* instance that was stored before the step.
C19_EntriesArePermanent ==
  [][/\ \A k \in DOMAIN MEMOIZED_BUILDERS :
          /\ k \in DOMAIN MEMOIZED_BUILDERS'
          /\ MEMOIZED_BUILDERS'[k] = MEMOIZED_BUILDERS[k]
     /\ (ret'.op = "builder" /\ ret' # ret /\ ret'.hit) =>
          /\ ret'.key \in DOMAIN MEMOIZED_BUILDERS
          /\ ret'.value = Some(MEMOIZED_BUILDERS[ret'.key])]_vars

\* C19 witness: the loader ("ds", None) got instance 1; the override then sent
\* it to "d2", where instance 2 was built, and a load failed; with the
\* override unset again and a seed-scope operation done, its access is a hit
\* that returns instance 1
C19_Witness ==
  /\ ret.op = "builder" /\ ret.hit
  /\ ret.loader.data_dir = None /\ ret.key = <<"ds", None>>
  /\ ret.value[1].id = 1
  /\ Len(tfdsCalls) = 3
  /\ tfdsCalls[1] = [name |-> "ds", data_dir |-> None, ok |-> TRUE]
  /\ tfdsCalls[2] = [name |-> "ds", data_dir |-> Some("d2"), ok |-> TRUE]
  /\ ~tfdsCalls[3].ok
  /\ MEMOIZED_BUILDERS[<<"ds", Some("d2")>>].id = 2
  /\ OpsDone >= 1

\* C20: every builder stored under a key (name, dir) was constructed by a
\* tfds.builder call made with that name and that dir, also when
\* set_tfds_data_dir_override runs while a thread is inside the property.
C20_KeyMatchesContent ==
  \A k \in DOMAIN MEMOIZED_BUILDERS :
    MEMOIZED_BUILDERS[k].name = k[1] /\ MEMOIZED_BUILDERS[k].data_dir = k[2]

====
